---- MODULE Spec2Model ----
(***************************************************************************)
(* csvs_to_excel.py: a sequential pipeline that loads CSV files and writes *)
(* them as sheets of one Excel workbook, followed by an Index sheet.       *)
(*                                                                         *)
(* Text (paths, sheet names, cell text, printed lines) is modelled with    *)
(* TLA+ strings; a cell is held as the text str() gives for its value.     *)
(* The file system is a fixed disk (Exists, read_csv, Writable) and the    *)
(* command line is the input drawn in Init.                                *)
(***************************************************************************)
EXTENDS Integers, Sequences, FiniteSets, TLC

VARIABLES argv, pc, exit_status, exc, out, csvs, csv_paths, i,
          sheets, summary_rows, stdout, io, wdf, wres, wpc

vars == <<argv, pc, exit_status, exc, out, csvs, csv_paths, i,
          sheets, summary_rows, stdout, io, wdf, wres, wpc>>

pipeVars == <<argv, pc, exit_status, exc, out, csvs, csv_paths, i,
              sheets, summary_rows, stdout, io>>

widthVars == <<wdf, wres, wpc>>

(***************************************************************************)
(* Bounds of the model.                                                    *)
(***************************************************************************)
\* longest list of source paths on the command line
MaxSources == 2
\* largest table handed to auto_widths on its own
WMaxCols == 2
WMaxRows == 2

(***************************************************************************)
(* Program constants.                                                      *)
(***************************************************************************)
SheetNameLimit == 31
MinWidth == 10
MaxWidth == 50
Padding == 2

(***************************************************************************)
(* Text helpers.                                                           *)
(***************************************************************************)
Char(s, k) == SubSeq(s, k, k)

\* s repeated n times
RECURSIVE Rep(_, _)
Rep(s, n) == IF n <= 0 THEN "" ELSE s \o Rep(s, n - 1)

\* 1-based position of the last occurrence of c in s, 0 when there is none
RFind(s, c) ==
    LET hits == {k \in 1..Len(s) : Char(s, k) = c}
    IN  IF hits = {} THEN 0 ELSE CHOOSE k \in hits : \A m \in hits : m <= k

MaxOf(S) == CHOOSE m \in S : \A n \in S : n <= m

Max2(a, b) == IF a >= b THEN a ELSE b

Min2(a, b) == IF a <= b THEN a ELSE b

\* str() of a non-negative int
RECURSIVE DecStr(_)
DecStr(n) ==
    IF n < 10 THEN Char("0123456789", n + 1)
    ELSE DecStr(n \div 10) \o Char("0123456789", (n % 10) + 1)

UpperAlpha == "ABCDEFGHIJKLMNOPQRSTUVWXYZ"
LowerAlpha == "abcdefghijklmnopqrstuvwxyz"

LowerChar(c) ==
    LET hits == {k \in 1..Len(UpperAlpha) : Char(UpperAlpha, k) = c}
    IN  IF hits = {} THEN c ELSE Char(LowerAlpha, CHOOSE k \in hits : TRUE)

\* str.lower()
RECURSIVE Lower(_)
Lower(s) == IF s = "" THEN "" ELSE LowerChar(Char(s, 1)) \o Lower(SubSeq(s, 2, Len(s)))

Overlay(old, new) ==
    [k \in (DOMAIN old) \cup (DOMAIN new) |-> IF k \in DOMAIN new THEN new[k] ELSE old[k]]

(***************************************************************************)
(* pathlib.Path of a relative path string: "." and empty components are    *)
(* dropped; name is the last component; stem is the name without its last  *)
(* suffix.                                                                 *)
(***************************************************************************)
RECURSIVE PathNorm(_)
PathNorm(p) ==
    LET k == RFind(p, "/")
        last == SubSeq(p, k + 1, Len(p))
        head == IF k = 0 THEN "" ELSE PathNorm(SubSeq(p, 1, k - 1))
    IN  IF last = "" \/ last = "." THEN head
        ELSE IF head = "" THEN last
        ELSE head \o "/" \o last

Path(p) == IF PathNorm(p) = "" THEN "." ELSE PathNorm(p)

PathName(p) == SubSeq(p, RFind(p, "/") + 1, Len(p))

PathStem(p) ==
    LET name == PathName(p)
        k == RFind(name, ".")
    IN  IF 1 < k /\ k < Len(name) THEN SubSeq(name, 1, k - 1) ELSE name

(***************************************************************************)
(* The disk the run sees.  A table is [columns, rows] with every cell held *)
(* as its text.                                                            *)
(***************************************************************************)
Long1 == Rep("l", SheetNameLimit) \o "1.csv"
Long2 == Rep("l", SheetNameLimit) \o "2.csv"

DefaultCsvs == <<"Speed_Limits.csv", "Traffic_Volumes.csv">>

Tables ==
    [p \in {"a.csv", "d/a.csv", "b.csv", Long1, Long2, "Index.csv", "index.csv",
            "q?.csv", "Speed_Limits.csv", "Traffic_Volumes.csv"} |->
        CASE p = "a.csv" ->
                [columns |-> <<"id", "name">>,
                 rows |-> <<<<"1", "Dundas Street East">>, <<"2", "Oxford">>>>]
          [] p = "d/a.csv" ->
                [columns |-> <<"id">>, rows |-> <<<<"7">>>>]
          [] p = "b.csv" ->
                [columns |-> <<"value">>, rows |-> <<>>]
          [] p = Long1 ->
                [columns |-> <<"k">>, rows |-> <<<<"1">>>>]
          [] p = Long2 ->
                [columns |-> <<"k", "v">>, rows |-> <<<<"2", "two">>>>]
          [] p = "Index.csv" ->
                [columns |-> <<"c1", "c2", "c3", "c4", "c5">>,
                 rows |-> <<<<"1", "2", "3", "4", "5">>, <<"6", "7", "8", "9", "10">>,
                            <<"11", "12", "13", "14", "15">>>>]
          [] p = "index.csv" ->
                [columns |-> <<"n">>, rows |-> <<<<"0">>>>]
          [] p = "q?.csv" ->
                [columns |-> <<"q">>, rows |-> <<<<"why">>>>]
          [] p = "Speed_Limits.csv" ->
                [columns |-> <<"street", "speed_limit_kmh">>,
                 rows |-> <<<<"Wharncliffe Road", "50">>>>]
          [] OTHER ->
                [columns |-> <<"street", "aadt">>,
                 rows |-> <<<<"Richmond", "21000">>>>]]

\* files that exist and do not parse
Unreadable == {"x.csv"}

\* Path.exists()
Exists(p) == p \in (DOMAIN Tables) \cup Unreadable

\* pd.read_csv inside its try/except: the table, or the exception caught
read_csv(p) ==
    IF p \in DOMAIN Tables
    THEN [ok |-> TRUE, df |-> Tables[p], e |-> ""]
    ELSE [ok |-> FALSE, df |-> [columns |-> <<>>, rows |-> <<>>],
          e |-> "No columns to parse from file"]

\* whether the workbook file can be created at the output path
Writable(o) == o /= "ro/out.xlsx"

OutPaths == {"out.xlsx", "ro/out.xlsx"}

\* the source paths a command line may name
SourceArgs == {"a.csv", "d/a.csv", "b.csv", "./m.csv", "x.csv", Long1, Long2,
               "Index.csv", "index.csv", "q?.csv"}

RECURSIVE SeqsUpTo(_, _)
SeqsUpTo(S, n) ==
    IF n = 0 THEN {<<>>}
    ELSE LET shorter == SeqsUpTo(S, n - 1)
         IN  shorter \cup {Append(s, x) : s \in {t \in shorter : Len(t) = n - 1}, x \in S}

Prog == "csvs_to_excel.py"

ArgLists ==
    {<<Prog>>} \cup {<<Prog, o>> \o l : o \in OutPaths, l \in SeqsUpTo(SourceArgs, MaxSources)}

(***************************************************************************)
(* auto_widths                                                             *)
(***************************************************************************)
Empty(df) == Len(df.columns) = 0 \/ Len(df.rows) = 0

\* auto_widths without line 26: the width is never cut to max_width
ColWidthUncut(header_len, max_len) == Max2(Max2(header_len, max_len), MinWidth) + Padding

ColWidth(header_len, max_len) == Min2(Max2(Max2(header_len, max_len), MinWidth), MaxWidth) + Padding

auto_widths(df) ==
    [k \in 1..Len(df.columns) |->
        LET max_len == IF ~Empty(df)
                       THEN MaxOf({Len(df.rows[r][k]) : r \in 1..Len(df.rows)})
                       ELSE 0
            header_len == Len(df.columns[k])
        IN  ColWidth(header_len, max_len)]

(***************************************************************************)
(* Worksheets.  cells maps <<row, col>> to cell text, fmt maps it to the   *)
(* format the cell was written with, colw maps a column to its width.      *)
(***************************************************************************)
NoCells == [rc \in {} |-> ""]

NewSheet == [cells |-> NoCells, fmt |-> NoCells, autofilter |-> <<>>,
             freeze |-> <<>>, colw |-> NoCells]

\* the cells DataFrame.to_excel(index=False) writes: the header row, then the rows
Frame(df) ==
    [rc \in (0..Len(df.rows)) \X (0..(Len(df.columns) - 1)) |->
        IF rc[1] = 0 THEN df.columns[rc[2] + 1] ELSE df.rows[rc[1]][rc[2] + 1]]

HeaderCells(df) == [rc \in {0} \X (0..(Len(df.columns) - 1)) |-> df.columns[rc[2] + 1]]

\* what add_worksheet raises for a name that is not yet a sheet of the book:
\* the workbook refuses a name holding one of [ ] : * ? / \ and a name equal,
\* letter case aside, to a sheet it already has.  (sheet_name is never empty
\* and never longer than SheetNameLimit here.)
SheetNameError(book, name) ==
    IF \E k \in 1..Len(name) : Char(name, k) \in {"[", "]", ":", "*", "?", "/", "\\"}
    THEN "InvalidWorksheetName"
    ELSE IF \E n \in DOMAIN book : Lower(n) = Lower(name)
    THEN "DuplicateWorksheetName"
    ELSE ""

\* the exception to_excel raises for this sheet name, "" when it writes
to_excel_error(book, name) ==
    IF name \in DOMAIN book THEN "" ELSE SheetNameError(book, name)

\* to_excel: the frame goes on the sheet of that name, created when absent; a
\* sheet that already has the name is written over, cell by cell, and keeps
\* the cells the new frame does not cover
to_excel(book, name, df) ==
    LET ws == IF name \in DOMAIN book THEN book[name] ELSE NewSheet
    IN  Overlay(book, [n \in {name} |-> [ws EXCEPT !.cells = Overlay(ws.cells, Frame(df))]])

\* header format, autofilter, freeze panes and column widths of one sheet
FormatSheet(book, name, df, header_fmt) ==
    LET ws == book[name]
        widths == auto_widths(df)
    IN  [book EXCEPT ![name] =
            [cells |-> Overlay(ws.cells, HeaderCells(df)),
             fmt |-> Overlay(ws.fmt, [rc \in DOMAIN HeaderCells(df) |-> header_fmt]),
             autofilter |-> <<0, 0, Len(df.rows), Max2(Len(df.columns) - 1, 0)>>,
             freeze |-> <<1, 0>>,
             colw |-> Overlay(ws.colw, [c \in 0..(Len(widths) - 1) |-> widths[c + 1]])]]

\* line 47 without the [:31] slice
sheet_name_uncut(csv_path) == PathStem(csv_path)

sheet_name(csv_path) == SubSeq(PathStem(csv_path), 1, Min2(Len(PathStem(csv_path)), SheetNameLimit))

SummaryRow(csv_path, df) ==
    [sheet |-> sheet_name(csv_path), rows |-> Len(df.rows),
     columns |-> Len(df.columns), source_file |-> PathName(csv_path)]

IndexColumns == <<"sheet", "rows", "columns", "source_file">>

\* pd.DataFrame(summary_rows)
DataFrame(records) ==
    [columns |-> IF records = <<>> THEN <<>> ELSE IndexColumns,
     rows |-> [k \in 1..Len(records) |->
                 <<records[k].sheet, DecStr(records[k].rows),
                   DecStr(records[k].columns), records[k].source_file>>]]

idx_sheet == "Index"

\* line 74 without its test: the Index sheet is written whatever the records
IndexAlways(records) == TRUE

IndexNeeded(records) == records /= <<>>

(***************************************************************************)
(* Printed lines.                                                          *)
(***************************************************************************)
UsageMsg == "Usage: python csvs_to_excel.py output.xlsx [csv1.csv csv2.csv ...]"

WarnMsg(csv_path) == "Warning: " \o csv_path \o " not found, skipping."

ErrorMsg(csv_path, e) == "Error reading " \o csv_path \o ": " \o e \o ". Skipping."

WroteMsg(name, df) ==
    "Wrote sheet: " \o name \o " (" \o DecStr(Len(df.rows)) \o " rows x "
        \o DecStr(Len(df.columns)) \o " cols)"

NoIndexMsg == "No CSVs were written; workbook will not contain an Index sheet."

SavedMsg(o) == "Saved workbook: " \o o

(***************************************************************************)
(* The run.                                                                *)
(***************************************************************************)
NoExc == [at |-> 0, type |-> ""]

Init ==
    /\ argv \in ArgLists
    /\ pc = "main"
    /\ exit_status = -1
    /\ exc = NoExc
    /\ out = ""
    /\ csvs = <<>>
    /\ csv_paths = <<>>
    /\ i = 0
    /\ sheets = [n \in {} |-> NewSheet]
    /\ summary_rows = <<>>
    /\ stdout = <<>>
    /\ io = <<>>
    /\ wdf = [columns |-> <<>>, rows |-> <<>>]
    /\ wres = <<>>
    /\ wpc = "off"

\* main, lines 93-95
Usage ==
    /\ pc = "main"
    /\ Len(argv) < 2
    /\ stdout' = Append(stdout, UsageMsg)
    /\ exit_status' = 1
    /\ pc' = "exit"
    /\ UNCHANGED <<argv, exc, out, csvs, csv_paths, i, sheets, summary_rows, io>>
    /\ UNCHANGED widthVars

\* line 98 slicing from the output path on
ResolveCsvsFromOut(args) == SubSeq(args, 2, Len(args))

ResolveCsvs(args) == IF SubSeq(args, 3, Len(args)) = <<>> THEN DefaultCsvs ELSE SubSeq(args, 3, Len(args))

\* main, lines 97-102, and the head of write_workbook, lines 31-35
Start ==
    /\ pc = "main"
    /\ Len(argv) >= 2
    /\ out' = Path(argv[2])
    /\ csvs' = ResolveCsvs(argv)
    /\ csv_paths' = [k \in 1..Len(ResolveCsvs(argv)) |-> Path(ResolveCsvs(argv)[k])]
    /\ io' = Append(io, [op |-> "ExcelWriter", arg |-> Path(argv[2]), at |-> 32])
    /\ summary_rows' = <<>>
    /\ i' = 1
    /\ pc' = "loop"
    /\ UNCHANGED <<argv, exit_status, exc, sheets, stdout>>
    /\ UNCHANGED widthVars

InLoop == pc = "loop" /\ i <= Len(csv_paths)

\* lines 38-40
SkipMissing ==
    /\ InLoop
    /\ ~Exists(csv_paths[i])
    /\ io' = Append(io, [op |-> "exists", arg |-> csv_paths[i], at |-> 38])
    /\ stdout' = Append(stdout, WarnMsg(csv_paths[i]))
    /\ i' = i + 1
    /\ UNCHANGED <<argv, pc, exit_status, exc, out, csvs, csv_paths, sheets, summary_rows>>
    /\ UNCHANGED widthVars

\* an except branch that falls through to the summary record
OnReadErrorRecords(records, csv_path) ==
    Append(records, SummaryRow(csv_path, read_csv(csv_path).df))

\* what the except branch of lines 43-45 does to the summary records
OnReadError(records, csv_path) == records

\* lines 38, 41-45
SkipUnreadable ==
    /\ InLoop
    /\ Exists(csv_paths[i])
    /\ ~read_csv(csv_paths[i]).ok
    /\ io' = io \o <<[op |-> "exists", arg |-> csv_paths[i], at |-> 38],
                     [op |-> "read_csv", arg |-> csv_paths[i], at |-> 42]>>
    /\ stdout' = Append(stdout, ErrorMsg(csv_paths[i], read_csv(csv_paths[i]).e))
    /\ summary_rows' = OnReadError(summary_rows, csv_paths[i])
    /\ i' = i + 1
    /\ UNCHANGED <<argv, pc, exit_status, exc, out, csvs, csv_paths, sheets>>
    /\ UNCHANGED widthVars

Loaded == InLoop /\ Exists(csv_paths[i]) /\ read_csv(csv_paths[i]).ok

LoadIo(csv_path) ==
    <<[op |-> "exists", arg |-> csv_path, at |-> 38],
      [op |-> "read_csv", arg |-> csv_path, at |-> 42],
      [op |-> "to_excel", arg |-> sheet_name(csv_path), at |-> 48]>>

\* lines 38-71
WriteSheet ==
    /\ Loaded
    /\ to_excel_error(sheets, sheet_name(csv_paths[i])) = ""
    /\ LET df == read_csv(csv_paths[i]).df
           name == sheet_name(csv_paths[i])
       IN  /\ sheets' = FormatSheet(to_excel(sheets, name, df), name, df, "header_fmt")
           /\ summary_rows' = Append(summary_rows, SummaryRow(csv_paths[i], df))
           /\ stdout' = Append(stdout, WroteMsg(name, df))
    /\ io' = io \o LoadIo(csv_paths[i])
    /\ i' = i + 1
    /\ UNCHANGED <<argv, pc, exit_status, exc, out, csvs, csv_paths>>
    /\ UNCHANGED widthVars

\* lines 38-48 when to_excel raises: nothing catches it
WriteSheetRaises ==
    /\ Loaded
    /\ to_excel_error(sheets, sheet_name(csv_paths[i])) /= ""
    /\ io' = io \o LoadIo(csv_paths[i])
    /\ exc' = [at |-> 48, type |-> to_excel_error(sheets, sheet_name(csv_paths[i]))]
    /\ exit_status' = 1
    /\ pc' = "raised"
    /\ UNCHANGED <<argv, out, csvs, csv_paths, i, sheets, summary_rows, stdout>>
    /\ UNCHANGED widthVars

LoopDone == pc = "loop" /\ i > Len(csv_paths)

IndexIo == [op |-> "to_excel", arg |-> idx_sheet, at |-> 77]

\* lines 74-85
WriteIndex ==
    /\ LoopDone
    /\ IndexNeeded(summary_rows)
    /\ to_excel_error(sheets, idx_sheet) = ""
    /\ LET idx_df == DataFrame(summary_rows)
       IN  sheets' = FormatSheet(to_excel(sheets, idx_sheet, idx_df), idx_sheet, idx_df,
                                 "idx_header_fmt")
    /\ io' = Append(io, IndexIo)
    /\ pc' = "close"
    /\ UNCHANGED <<argv, exit_status, exc, out, csvs, csv_paths, i, summary_rows, stdout>>
    /\ UNCHANGED widthVars

\* lines 74-77 when to_excel raises
WriteIndexRaises ==
    /\ LoopDone
    /\ IndexNeeded(summary_rows)
    /\ to_excel_error(sheets, idx_sheet) /= ""
    /\ io' = Append(io, IndexIo)
    /\ exc' = [at |-> 77, type |-> to_excel_error(sheets, idx_sheet)]
    /\ exit_status' = 1
    /\ pc' = "raised"
    /\ UNCHANGED <<argv, out, csvs, csv_paths, i, sheets, summary_rows, stdout>>
    /\ UNCHANGED widthVars

\* lines 86-87
NoIndex ==
    /\ LoopDone
    /\ ~IndexNeeded(summary_rows)
    /\ stdout' = Append(stdout, NoIndexMsg)
    /\ pc' = "close"
    /\ UNCHANGED <<argv, exit_status, exc, out, csvs, csv_paths, i, sheets, summary_rows, io>>
    /\ UNCHANGED widthVars

CloseIo == [op |-> "close", arg |-> out, at |-> 89]

\* lines 89-90
Close ==
    /\ pc = "close"
    /\ Writable(out)
    /\ io' = Append(io, CloseIo)
    /\ stdout' = Append(stdout, SavedMsg(out))
    /\ exit_status' = 0
    /\ pc' = "done"
    /\ UNCHANGED <<argv, exc, out, csvs, csv_paths, i, sheets, summary_rows>>
    /\ UNCHANGED widthVars

\* line 89 when the file cannot be created
CloseRaises ==
    /\ pc = "close"
    /\ ~Writable(out)
    /\ io' = Append(io, CloseIo)
    /\ exc' = [at |-> 89, type |-> "FileCreateError"]
    /\ exit_status' = 1
    /\ pc' = "raised"
    /\ UNCHANGED <<argv, out, csvs, csv_paths, i, sheets, summary_rows, stdout>>
    /\ UNCHANGED widthVars

Next ==
    \/ Usage
    \/ Start
    \/ SkipMissing
    \/ SkipUnreadable
    \/ WriteSheet
    \/ WriteSheetRaises
    \/ WriteIndex
    \/ WriteIndexRaises
    \/ NoIndex
    \/ Close
    \/ CloseRaises

Spec == Init /\ [][Next]_vars

(***************************************************************************)
(* auto_widths on its own, over every table within the bounds.             *)
(***************************************************************************)
WHeaders == {Rep("h", 4), Rep("h", 50)}

WCells == {Rep("x", 9), Rep("x", 30), Rep("x", 51)}

WTables ==
    UNION {[columns : [1..c -> WHeaders], rows : [1..r -> [1..c -> WCells]]] :
              c \in 0..WMaxCols, r \in 0..WMaxRows}

InitW ==
    /\ wdf \in WTables
    /\ wres = <<>>
    /\ wpc = "call"
    /\ argv = <<Prog>>
    /\ pc = "off"
    /\ exit_status = -1
    /\ exc = NoExc
    /\ out = ""
    /\ csvs = <<>>
    /\ csv_paths = <<>>
    /\ i = 0
    /\ sheets = [n \in {} |-> NewSheet]
    /\ summary_rows = <<>>
    /\ stdout = <<>>
    /\ io = <<>>

\* lines 20-28
CallAutoWidths ==
    /\ wpc = "call"
    /\ wres' = auto_widths(wdf)
    /\ wpc' = "returned"
    /\ UNCHANGED wdf
    /\ UNCHANGED pipeVars

NextW == CallAutoWidths

SpecW == InitW /\ [][NextW]_vars

(***************************************************************************)
(* Properties.                                                             *)
(***************************************************************************)
\* the run is over, past the usage check
Ended == pc \in {"done", "raised"}

\* the run got to writer.close()
FinalizeReached == pc \in {"close", "done"} \/ (pc = "raised" /\ exc.at = 89)

\* positions of the source list whose file exists and parses
LoadedIdx == {k \in 1..Len(csv_paths) : Exists(csv_paths[k]) /\ read_csv(csv_paths[k]).ok}

\* the sources that load, in list order
LoadedPaths == SelectSeq(csv_paths, LAMBDA p : Exists(p) /\ read_csv(p).ok)

IoCount(op) == Cardinality({k \in 1..Len(io) : io[k].op = op})

\* C1: processing a source never aborts the run: a run that passed the usage
\* check ends only after the loop went through every source and finalize was
\* reached, so an uncaught exception can come from finalize (line 89) alone.
C1_SourcesNeverAbort ==
    Ended => /\ i > Len(csv_paths)
             /\ FinalizeReached
             /\ (pc = "raised" => exc.at = 89)

\* C2: at finalize the workbook has an Index page iff the summary records are
\* non-empty; with no record there is no Index page, the informational line
\* was printed, and the run ends as finalize decides (status 0 when the
\* workbook file can be written).
C2_IndexIffLoaded ==
    FinalizeReached =>
        /\ (idx_sheet \in DOMAIN sheets) <=> (summary_rows /= <<>>)
        /\ (\E k \in 1..Len(io) : io[k].at = 77) <=> (summary_rows /= <<>>)
        /\ (summary_rows /= <<>>) <=> (LoadedIdx /= {})
        /\ summary_rows = <<>> =>
              /\ sheets = <<>>
              /\ stdout[Len(csv_paths) + 1] = NoIndexMsg
              /\ Ended => ((pc = "done" /\ exit_status = 0) <=> Writable(out))

C2_Witness ==
    /\ pc = "done"
    /\ exit_status = 0
    /\ Len(csv_paths) = 2
    /\ summary_rows = <<>>
    /\ NoIndexMsg \in {stdout[k] : k \in 1..Len(stdout)}

\* C3: at finalize the pages are one distinct page per loaded source file,
\* named by its truncated stem, plus Index when a source loaded: the page
\* count is the number of loaded source files plus one, or zero.
C3_OnePagePerSource ==
    FinalizeReached =>
        LET files == {csv_paths[k] : k \in LoadedIdx}
        IN  /\ DOMAIN sheets =
                 {sheet_name(p) : p \in files} \cup (IF files = {} THEN {} ELSE {"Index"})
            /\ Cardinality(DOMAIN sheets) =
                 (IF files = {} THEN 0 ELSE Cardinality(files) + 1)

\* the table the Index page is to hold: one row per loaded source, in order
ExpectedIndex ==
    [columns |-> <<"sheet", "rows", "columns", "source_file">>,
     rows |-> [k \in 1..Len(LoadedPaths) |->
                 <<sheet_name(LoadedPaths[k]),
                   DecStr(Len(Tables[LoadedPaths[k]].rows)),
                   DecStr(Len(Tables[LoadedPaths[k]].columns)),
                   PathName(LoadedPaths[k])>>]]

IndexWritten == FinalizeReached /\ summary_rows /= <<>>

\* C4: once written, the Index page holds the header sheet, rows, columns,
\* source_file and exactly one record per loaded source, in list order, with
\* that source's sheet name, row count, column count and file name, and
\* nothing else.
C4_IndexHoldsTheRecords ==
    IndexWritten => sheets["Index"].cells = Frame(ExpectedIndex)

\* the same, for the runs in which no source's sheet name is Index
C4_HoldsWithoutIndexStem ==
    (IndexWritten /\ \A k \in LoadedIdx : sheet_name(csv_paths[k]) /= "Index")
        => sheets["Index"].cells = Frame(ExpectedIndex)

\* C5: a run with a missing source path reaches finalize after going through
\* the whole list, prints one warning naming the path for each time it is
\* listed, and has no page and no summary record for it.
C5_MissingIsSkipped ==
    \A k \in 1..Len(csv_paths) :
        (Ended /\ ~Exists(csv_paths[k])) =>
            /\ FinalizeReached
            /\ i > Len(csv_paths)
            /\ Cardinality({m \in 1..Len(stdout) : stdout[m] = WarnMsg(csv_paths[k])})
                 = Cardinality({m \in 1..Len(csv_paths) : csv_paths[m] = csv_paths[k]})
            /\ \A m \in 1..Len(summary_rows) :
                   summary_rows[m].source_file /= PathName(csv_paths[k])
            /\ sheet_name(csv_paths[k]) \notin DOMAIN sheets

\* C6: a step that meets a source that exists and does not parse prints the
\* error naming the path and the cause, leaves the pages and the summary
\* records as they were, and moves on to the next source; the position in the
\* list never moves back, so the source is not tried again.
C6_ParseFailureSkips ==
    [][ /\ i' >= i
        /\ (InLoop /\ Exists(csv_paths[i]) /\ ~read_csv(csv_paths[i]).ok) =>
              /\ sheets' = sheets
              /\ summary_rows' = summary_rows
              /\ stdout' = Append(stdout,
                     "Error reading " \o csv_paths[i] \o ": "
                         \o read_csv(csv_paths[i]).e \o ". Skipping.")
              /\ Len(io') = Len(io) + 2
              /\ io'[Len(io')] = [op |-> "read_csv", arg |-> csv_paths[i], at |-> 42]
              /\ csv_paths' = csv_paths
              /\ i' = i + 1
              /\ pc' = "loop"
              /\ exc' = exc ]_vars

C6_Witness ==
    /\ pc = "done"
    /\ csv_paths = <<"x.csv", "a.csv">>
    /\ Len(summary_rows) = 1
    /\ summary_rows[1].source_file = "a.csv"
    /\ IoCount("read_csv") = 2

\* C7: a run that passed the usage check closes the workbook exactly once, as
\* its last workbook operation, after the whole list was processed.
C7_ClosedExactlyOnce ==
    Ended => /\ IoCount("close") = 1
             /\ io[Len(io)].op = "close"
             /\ i > Len(csv_paths)

\* the largest of the header length and the cell-text lengths of column k
RawLen(df, k) ==
    LET lens == {Len(df.columns[k])} \cup {Len(df.rows[r][k]) : r \in 1..Len(df.rows)}
    IN  CHOOSE m \in lens : \A n \in lens : n <= m

\* C8: auto_widths returns one width per column, in column order: the largest
\* of the header length and the cell-text lengths (none for a table with no
\* rows), raised to 10 and cut to 50, plus 2; so each width is in 12..52.
C8_AutoWidths ==
    wpc = "returned" =>
        /\ Len(wres) = Len(wdf.columns)
        /\ \A k \in 1..Len(wdf.columns) :
              /\ wres[k] \in 12..52
              /\ wres[k] = (IF RawLen(wdf, k) < 10 THEN 10
                            ELSE IF RawLen(wdf, k) > 50 THEN 50
                            ELSE RawLen(wdf, k)) + 2

C8_Witness ==
    /\ wpc = "returned"
    /\ Len(wdf.columns) = 2
    /\ Len(wdf.rows) = 2
    /\ wres = <<12, 52>>
    /\ Len(wdf.columns[2]) = 4
    /\ Len(wdf.rows[1][2]) = 51

\* C9: the sheet name of a written source is its file stem cut to at most 31
\* characters: the stem itself when it has 31 characters or fewer, its first
\* 31 characters otherwise, with no character changed; the page written and
\* the summary record carry that same name.
C9_SheetNameIsTruncatedStem ==
    /\ Len(summary_rows) <= Len(LoadedPaths)
    /\ \A k \in 1..Len(summary_rows) :
          LET stem == PathStem(LoadedPaths[k])
              name == summary_rows[k].sheet
              writes == SelectSeq(io, LAMBDA c : c.at = 48)
          IN  /\ Len(name) = (IF Len(stem) > 31 THEN 31 ELSE Len(stem))
              /\ \A c \in 1..Len(name) : SubSeq(name, c, c) = SubSeq(stem, c, c)
              /\ writes[k].arg = name
              /\ name \in DOMAIN sheets

C9_Witness ==
    /\ pc = "done"
    /\ Len(summary_rows) = 2
    /\ Len(PathStem(csv_paths[1])) = 32
    /\ Len(summary_rows[1].sheet) = 31
    /\ summary_rows[2].sheet = "a"

\* C10: with no output path, main prints the usage line and exits with status
\* 1 before any workbook or file operation; with an output path and no source
\* path the source list is Speed_Limits.csv, Traffic_Volumes.csv, and
\* otherwise it is the source paths given, in their order.
C10_UsageAndDefaults ==
    /\ Len(argv) < 2 => pc \in {"main", "exit"}
    /\ pc = "exit" =>
          /\ Len(argv) < 2
          /\ exit_status = 1
          /\ stdout = <<UsageMsg>>
          /\ io = <<>>
          /\ sheets = <<>>
          /\ csv_paths = <<>>
    /\ (Len(argv) >= 2 /\ pc /= "main") =>
          /\ pc /= "exit"
          /\ Len(argv) = 2 => csvs = <<"Speed_Limits.csv", "Traffic_Volumes.csv">>
          /\ Len(argv) > 2 =>
                /\ Len(csvs) = Len(argv) - 2
                /\ \A k \in 1..Len(csvs) : csvs[k] = argv[k + 2]

C10_Witness ==
    /\ pc = "exit"
    /\ exit_status = 1
    /\ argv = <<Prog>>

====
